---------------------------- MODULE Spec2Model ----------------------------
(***************************************************************************)
(* A model of rroguelib: the grid coordinate system (util.rs, grid.rs),    *)
(* the two glyph layout policies (util.rs layout_grid, main.rs             *)
(* layout_grid), the text batch builder (create_text_vb) and the frame     *)
(* renderer (lib.rs Roguelib::draw).                                       *)
(*                                                                         *)
(* Numbers.  Pixel-space quantities of type f32 (screen size, cell size,   *)
(* padding, glyph positions, caret) are fixed-point integers counting      *)
(* units of 2^-19 pixel; every f32 operation on them is followed by        *)
(* RoundF32, the round-to-nearest-even of the IEEE-754 binary32 format     *)
(* (24 significant bits), so the results are the ones the program          *)
(* computes for every input that is a multiple of 2^-19 below 4096.        *)
(* Whole pixels (u32/i32: columns, rows, indices, pixel bounding boxes)    *)
(* are plain integers.  Clip-space and texture coordinates of type f32 are  *)
(* binary32 values <<m, e>> = m * 2^e, computed with the format's          *)
(* round-to-nearest-even after every operation.                            *)
(***************************************************************************)
EXTENDS Integers, Sequences, FiniteSets, TLC

(***************************************************************************)
(* Arithmetic helpers                                                      *)
(***************************************************************************)

\* One pixel in fixed-point units.
Unit == 2^19

Px(n) == n * Unit

Abs(n) == IF n < 0 THEN -n ELSE n

Max(a, b) == IF a >= b THEN a ELSE b

Min(a, b) == IF a <= b THEN a ELSE b

\* Number of binary digits of n, 0 <= n < 2^31 (0 for n = 0), found by
\* halving the range of the digit count.
BitLen(n) ==
    LET b2(a) == IF a < 2 THEN a ELSE IF a < 4 THEN 2 ELSE IF a < 8 THEN 3 ELSE 4
        b4(a) == IF a < 16 THEN b2(a) ELSE 4 + b2(a \div 16)
        b8(a) == IF a < 256 THEN b4(a) ELSE 8 + b4(a \div 256)
    IN  IF n < 65536 THEN b8(n) ELSE 16 + b8(n \div 65536)

\* Rounding of the fixed-point value n to binary32: values with at most 24
\* significant bits are exact, others are rounded to nearest, ties to even.
RoundF32(n) ==
    LET \* a rounded to a multiple of p, the weight of the last kept bit
        nearest(a, p) ==
            IF 2 * (a % p) > p \/ (2 * (a % p) = p /\ (a \div p) % 2 = 1)
            THEN (a \div p + 1) * p
            ELSE (a \div p) * p
        magnitude(a) ==
            IF a < 2^24 THEN a ELSE nearest(a, 2^(BitLen(a) - 24))
    IN  IF n < 0 THEN -magnitude(-n) ELSE magnitude(n)

F32Add(a, b) == RoundF32(a + b)

F32Sub(a, b) == RoundF32(a - b)

\* (n as f32) * b for a whole number n and a fixed-point b: the cast rounds
\* n to binary32, the product is rounded again.
F32MulInt(n, b) == RoundF32(RoundF32(n) * b)

\* `f as u32`: the float-to-integer cast saturates, negative values give 0.
AsU32(n) == IF n < 0 THEN 0 ELSE n

\* floor and ceiling of a fixed-point value, in whole pixels.
FloorPx(n) == n \div Unit

CeilPx(n) == -((-n) \div Unit)

\* Clip-space and texture coordinates of type f32 are binary32 values
\* <<m, e>>, standing for m * 2^e, with m odd and below 2^24 in magnitude
\* (zero is <<0, 0>>), so that equal values have equal representations.
RECURSIVE FltNorm(_, _)
FltNorm(m, e) ==
    IF m = 0 THEN <<0, 0>>
    ELSE IF m % 256 = 0 THEN FltNorm(m \div 256, e + 8)
    ELSE IF m % 2 = 0 THEN FltNorm(m \div 2, e + 1)
    ELSE <<m, e>>

\* The binary32 value nearest to n * 2^e, ties to even.  A set last bit of
\* n may stand for a discarded non-zero tail when at least two bits of n
\* are rounded away.
FltRound(n, e) ==
    LET nearest(a, k) ==
            IF 2 * (a % 2^k) > 2^k
               \/ (2 * (a % 2^k) = 2^k /\ (a \div 2^k) % 2 = 1)
            THEN <<a \div 2^k + 1, e + k>>
            ELSE <<a \div 2^k, e + k>>
        magnitude(a) ==
            IF a < 2^24 THEN <<a, e>> ELSE nearest(a, BitLen(a) - 24)
        signed(r) == FltNorm(IF n < 0 THEN -r[1] ELSE r[1], r[2])
    IN  signed(magnitude(Abs(n)))

\* `n as f32` for a whole number n.
FltInt(n) == FltRound(n, 0)

\* The binary32 value of a pixel-space fixed-point quantity.
FltPx(n) == FltRound(n, -19)

FltNeg(x) == <<-x[1], x[2]>>

\* Binary long division of n + r / b (r < b < 2^24), up to seven bits at a
\* time, until the quotient has 26 bits; a non-zero remainder is recorded in
\* the last bit.
RECURSIVE FltLongDiv(_, _, _, _)
FltLongDiv(n, r, b, e) ==
    LET step(k) ==
            FltLongDiv(n * 2^k + (r * 2^k) \div b, (r * 2^k) % b, b, e - k)
    IN  IF BitLen(n) >= 26
        THEN <<IF r # 0 /\ n % 2 = 0 THEN n + 1 ELSE n, e>>
        ELSE step(Min(7, 26 - BitLen(n)))

\* x / y in binary32, for y # 0.
FltDiv(x, y) ==
    LET signed(q) ==
            FltRound(IF (x[1] < 0) # (y[1] < 0) THEN -q[1] ELSE q[1], q[2])
    IN  IF x[1] = 0 THEN <<0, 0>>
        ELSE signed(FltLongDiv(Abs(x[1]) \div Abs(y[1]), Abs(x[1]) % Abs(y[1]),
                               Abs(y[1]), x[2] - y[2]))

\* x + y in binary32: both operands are aligned to a unit three bits below
\* the last bit of the larger one (the bits of the smaller operand shifted
\* out are recorded in its last bit), added exactly and rounded.
FltAdd(x, y) ==
    LET top(z) == z[2] + BitLen(Abs(z[1]))
        shifted(a, d) ==
            IF d >= 24 THEN 1
            ELSE IF a % 2^d # 0 /\ (a \div 2^d) % 2 = 0 THEN a \div 2^d + 1
            ELSE a \div 2^d
        aligned(z, u) ==
            IF z[2] >= u THEN z[1] * 2^(z[2] - u)
            ELSE IF z[1] < 0 THEN -shifted(-z[1], u - z[2])
            ELSE shifted(z[1], u - z[2])
        sum(u) == FltRound(aligned(x, u) + aligned(y, u), u)
    IN  IF x[1] = 0 THEN y
        ELSE IF y[1] = 0 THEN x
        ELSE sum(Max(top(x), top(y)) - 27)

FltSub(x, y) == FltAdd(x, FltNeg(y))

\* x * 2.0 in binary32: exact.
FltDouble(x) == IF x[1] = 0 THEN x ELSE <<x[1], x[2] + 1>>

\* x < y: the rounded difference has the sign of the exact one.
FltLess(x, y) == FltSub(x, y)[1] < 0

\* f32::floor and the truncation toward zero of a binary32 value: whole
\* numbers.
FltFloor(x) ==
    IF x[2] >= 0 THEN x[1] * 2^x[2]
    ELSE IF x[2] <= -31 THEN (IF x[1] < 0 THEN -1 ELSE 0)
    ELSE x[1] \div 2^(-x[2])

FltTrunc(x) == IF x[1] < 0 THEN -FltFloor(FltNeg(x)) ELSE FltFloor(x)

\* f32::floor(a / b) for fixed-point a and b > 0: the binary32 quotient,
\* then its floor.
F32FloorDiv(a, b) == FltFloor(FltDiv(FltPx(a), FltPx(b)))

\* The binary32 quotient a / b truncated toward zero (the value of an `as`
\* cast before saturation), for fixed-point a and b > 0.
F32TruncDiv(a, b) == FltTrunc(FltDiv(FltPx(a), FltPx(b)))

Vec(x, y) == [x |-> x, y |-> y]

(***************************************************************************)
(* util.rs: LineGrid                                                       *)
(***************************************************************************)

\* Mutant of LineGridNew: the column count taken from the vertical extent.
LineGridNewSwapped(screen_dimensions, grid_dimensions, grid_padding) ==
    LET total_y == F32FloorDiv(F32Sub(screen_dimensions.y, grid_padding.y),
                               grid_dimensions.y)
        total_x == F32FloorDiv(F32Sub(screen_dimensions.x, grid_padding.x),
                               grid_dimensions.x)
    IN  [screen_dimensions |-> screen_dimensions,
         grid_dimensions   |-> grid_dimensions,
         grid_padding      |-> grid_padding,
         totals            |-> Vec(AsU32(total_y), AsU32(total_x))]

LineGridNew(screen_dimensions, grid_dimensions, grid_padding) ==
    LET total_y == F32FloorDiv(F32Sub(screen_dimensions.y, grid_padding.y),
                               grid_dimensions.y)
        total_x == F32FloorDiv(F32Sub(screen_dimensions.x, grid_padding.x),
                               grid_dimensions.x)
    IN  [screen_dimensions |-> screen_dimensions,
         grid_dimensions   |-> grid_dimensions,
         grid_padding      |-> grid_padding,
         totals            |-> Vec(AsU32(total_x), AsU32(total_y))]

\* index % totals.x and index / totals.x panic when totals.x = 0.
coordinates_for_panics(grid, index) == grid.totals.x = 0

\* Mutant of coordinates_for: quotient and remainder exchanged.
coordinates_for_transposed(grid, index) ==
    LET x == index \div grid.totals.x
        y == index % grid.totals.x
    IN  Vec(F32Add(F32MulInt(x, grid.grid_dimensions.x), grid.grid_padding.x),
            F32Add(F32MulInt(y, grid.grid_dimensions.y), grid.grid_padding.y))

\* Mutant of coordinates_for: the padding is left out.
coordinates_for_unpadded(grid, index) ==
    LET x == index % grid.totals.x
        y == index \div grid.totals.x
    IN  Vec(F32MulInt(x, grid.grid_dimensions.x),
            F32MulInt(y, grid.grid_dimensions.y))

coordinates_for(grid, index) ==
    LET x == index % grid.totals.x
        y == index \div grid.totals.x
    IN  Vec(F32Add(F32MulInt(x, grid.grid_dimensions.x), grid.grid_padding.x),
            F32Add(F32MulInt(y, grid.grid_dimensions.y), grid.grid_padding.y))

(***************************************************************************)
(* grid.rs: Grid                                                           *)
(***************************************************************************)

\* `(height / grid_y) as u32` truncates the binary32 quotient.
GridNew(width, height, grid_x, grid_y) ==
    [width |-> width, height |-> height, grid_x |-> grid_x, grid_y |-> grid_y,
     cells_y |-> AsU32(F32TruncDiv(height, grid_y)),
     cells_x |-> AsU32(F32TruncDiv(width, grid_x))]

by_index_panics(grid, index) == grid.cells_x = 0

by_index(grid, index) ==
    LET y_idx == index \div grid.cells_x
        x_idx == index % grid.cells_x
    IN  [cell_width |-> grid.grid_x, cell_height |-> grid.grid_y,
         x |-> F32MulInt(x_idx, grid.grid_x),
         y |-> F32MulInt(y_idx, grid.grid_y)]

(***************************************************************************)
(* Text and fonts.  The rasterizer (rusttype) and the normalizer are       *)
(* outside the repository; the model gives them a small concrete font      *)
(* table and the NFC composition for the code points it uses.              *)
(***************************************************************************)

\* Code points: LATIN SMALL LETTER E and X, COMBINING ACUTE ACCENT, the
\* precomposed E WITH ACUTE, and SPACE (a glyph without outline).
CodePoints == {"e", "x", "acute", "eacute", "sp"}

RECURSIVE Compose(_, _)
\* Canonical composition, left to right: "e" followed by "acute" becomes
\* "eacute"; no other pair of these code points has a precomposed form.
Compose(done, rest) ==
    IF rest = <<>> THEN done
    ELSE IF /\ done # <<>>
            /\ done[Len(done)] = "e"
            /\ Head(rest) = "acute"
         THEN Compose(SubSeq(done, 1, Len(done) - 1) \o <<"eacute">>, Tail(rest))
         ELSE Compose(Append(done, Head(rest)), Tail(rest))

RECURSIVE Decompose(_)
\* Canonical decomposition: "eacute" is "e" followed by "acute".
Decompose(text) ==
    IF text = <<>> THEN <<>>
    ELSE (IF Head(text) = "eacute" THEN <<"e", "acute">> ELSE <<Head(text)>>)
         \o Decompose(Tail(text))

\* text.nfc(): canonical decomposition followed by canonical composition.
nfc(text) == Compose(<<>>, Decompose(text))

FontFiles == {"square", "consola"}

\* font.v_metrics(scale) of each font file at the scale it is used with:
\* square.ttf has whole-pixel metrics, consola.ttf fractional ones.
v_metrics(file) ==
    IF file = "square"
    THEN [ascent |-> Px(14), descent |-> -Px(4), line_gap |-> 0]
    ELSE [ascent |-> 9245185, descent |-> -2726913, line_gap |-> 361473]

\* glyph.h_metrics().advance_width; the combining accent does not advance.
advance_width(file, c) ==
    IF c = "acute" THEN 0
    ELSE IF file = "square" THEN Px(16) ELSE 15490003

\* The outline box of the scaled glyph relative to its origin (y grows
\* downward from the baseline); SPACE has no outline.
has_outline(file, c) == c # "sp"

exact_bounding_box(file, c) ==
    LET m == v_metrics(file)
        w == advance_width(file, "e")
    IN  IF c = "acute"
        THEN [min |-> Vec(-(w \div 2), -m.ascent),
              max |-> Vec(-(w \div 4), -(m.ascent \div 2))]
        ELSE IF c = "x"
        THEN [min |-> Vec(Unit \div 2, -(m.ascent \div 2)),
              max |-> Vec(w - Unit \div 2, 0)]
        ELSE [min |-> Vec(Unit, -m.ascent + Unit),
              max |-> Vec(w, -m.descent \div 2)]

\* A positioned glyph: font.glyph(c).scaled(scale).positioned(position).
Glyph(file, c, position) == [font |-> file, c |-> c, position |-> position]

\* PositionedGlyph::pixel_bounding_box: the outline box moved to the glyph's
\* position, its minimum rounded down and its maximum up to whole pixels.
has_pixel_bounding_box(g) == has_outline(g.font, g.c)

pixel_bounding_box(g) ==
    LET moved(bb) ==
            [min |-> Vec(FloorPx(F32Add(bb.min.x, g.position.x)),
                         FloorPx(F32Add(bb.min.y, g.position.y))),
             max |-> Vec(CeilPx(F32Add(bb.max.x, g.position.x)),
                         CeilPx(F32Add(bb.max.y, g.position.y)))]
    IN  moved(exact_bounding_box(g.font, g.c))

(***************************************************************************)
(* util.rs: grid-indexed layout                                            *)
(***************************************************************************)

RECURSIVE layout_grid_loop(_, _, _, _, _)
layout_grid_loop(file, grid, chars, index, result) ==
    IF chars = <<>> THEN result
    ELSE LET grid_pos == coordinates_for(grid, index)
             glyph == Glyph(file, Head(chars), Vec(grid_pos.x, grid_pos.y))
         IN  layout_grid_loop(file, grid, Tail(chars), index + 1,
                              Append(result, glyph))

\* The first coordinates_for call panics on a grid without columns.
layout_grid_panics(grid, text) ==
    nfc(text) # <<>> /\ coordinates_for_panics(grid, grid.totals.x)

layout_grid(file, grid, text) ==
    layout_grid_loop(file, grid, nfc(text), grid.totals.x, <<>>)

(***************************************************************************)
(* main.rs: advance-based layout, one loop iteration at a time             *)
(***************************************************************************)

\* let mut caret = point(0.0, v_metrics.ascent)
initial_caret(file) == Vec(0, v_metrics(file).ascent)

\* v_metrics.ascent - v_metrics.descent + v_metrics.line_gap
advance_height(file) ==
    LET m == v_metrics(file)
    IN  F32Add(F32Sub(m.ascent, m.descent), m.line_gap)

\* bb.max.x > width as i32, for the glyph positioned at the caret.
overflows(file, width, caret, c) ==
    /\ has_pixel_bounding_box(Glyph(file, c, caret))
    /\ pixel_bounding_box(Glyph(file, c, caret)).max.x > width

\* Mutant of layout_step: an overflowing glyph stays where it is.
layout_step_unwrapped(file, width, caret, c) ==
    LET glyph == Glyph(file, c, caret)
        advanced == Vec(F32Add(caret.x, advance_width(file, c)), caret.y)
    IN  IF has_pixel_bounding_box(glyph)
        THEN [caret |-> advanced, glyph |-> glyph]
        ELSE [caret |-> caret, glyph |-> glyph]

\* One iteration of the loop over text.nfc(): the caret after the
\* iteration and the glyph pushed to the result.
layout_step(file, width, caret, c) ==
    LET glyph == Glyph(file, c, caret)
        wrapped == Vec(0, F32Add(caret.y, advance_height(file)))
        advanced == Vec(F32Add(caret.x, advance_width(file, c)), caret.y)
    IN  IF has_pixel_bounding_box(glyph)
        THEN IF pixel_bounding_box(glyph).max.x > width
             THEN [caret |-> wrapped, glyph |-> Glyph(file, c, wrapped)]
             ELSE [caret |-> advanced, glyph |-> glyph]
        ELSE [caret |-> caret, glyph |-> glyph]

(***************************************************************************)
(* The glyph cache (rusttype::gpu_cache::Cache) as the renderer uses it:   *)
(* queue_glyph, cache_queued with its upload callback, rect_for.  Glyphs   *)
(* are keyed by code point and packed on shelves in queue order.           *)
(***************************************************************************)

EmptyMap == [c \in {} |-> 0]

MapPut(f, k, v) == [c \in DOMAIN f \cup {k} |-> IF c = k THEN v ELSE f[c]]

Rect(x0, y0, x1, y1) == [min |-> Vec(x0, y0), max |-> Vec(x1, y1)]

ZeroRect == Rect(0, 0, 0, 0)

\* Cache::builder().dimensions(width, height).build()
CacheNew(width, height) ==
    [width |-> width, height |-> height, all_glyphs |-> EmptyMap,
     queue |-> <<>>, cx |-> 0, cy |-> 0, rowh |-> 0]

\* cache.queue_glyph(0, glyph.clone()): glyphs without a pixel bounding box
\* are not queued.
queue_glyph(cache, g) ==
    IF has_pixel_bounding_box(g)
    THEN [cache EXCEPT !.queue = Append(@, g)]
    ELSE cache

\* Width and height in pixels of the bitmap of code point c.
bitmap_size(file, c) ==
    LET extent(bb) == Vec(bb.max.x - bb.min.x, bb.max.y - bb.min.y)
    IN  extent(pixel_bounding_box(Glyph(file, c, Vec(0, 0))))

RECURSIVE Distinct(_, _)
\* The code points of a glyph sequence, each once, in order of appearance.
Distinct(gs, seen) ==
    IF gs = <<>> THEN <<>>
    ELSE IF Head(gs).c \in seen THEN Distinct(Tail(gs), seen)
    ELSE <<Head(gs)>> \o Distinct(Tail(gs), seen \cup {Head(gs).c})

\* Place one bitmap on the current shelf, or on a new shelf below it.
place(st, W, H, g) ==
    LET \* the bitmap of size sz put at (x0, y0) on a shelf of height h0
        put(sz, x0, y0, h0, r) ==
            IF ~st.ok \/ y0 + sz.y > H THEN [st EXCEPT !.ok = FALSE]
            ELSE [ok |-> TRUE, all_glyphs |-> MapPut(st.all_glyphs, g.c, r),
                  cx |-> x0 + sz.x + 1, cy |-> y0, rowh |-> Max(h0, sz.y + 1),
                  dirty |-> Append(st.dirty, [rect |-> r, c |-> g.c])]
        at(sz, x0, y0, h0) ==
            put(sz, x0, y0, h0, Rect(x0, y0, x0 + sz.x, y0 + sz.y))
        shelf(sz) ==
            IF st.cx + sz.x > W
            THEN at(sz, 0, st.cy + st.rowh, 0)
            ELSE at(sz, st.cx, st.cy, st.rowh)
    IN  shelf(bitmap_size(g.font, g.c))

RECURSIVE place_all(_, _, _, _)
place_all(st, W, H, gs) ==
    IF gs = <<>> THEN st ELSE place_all(place(st, W, H, Head(gs)), W, H, Tail(gs))

\* cache.cache_queued(uploader): a glyph as large as the cache is refused
\* (GlyphTooLarge); the queued glyphs not yet cached are placed; when they
\* do not fit, the cache is cleared and the whole queue is placed again,
\* and when that fails too the call fails (NoRoomForWholeQueue).  `dirty`
\* lists the regions of the glyphs placed, which the call hands to its
\* uploader before it returns; at which point of the call it does so is the
\* library's matter and is not modelled.
cache_queued(cache) ==
    LET W == cache.width
        H == cache.height
        start == [ok |-> TRUE, all_glyphs |-> cache.all_glyphs, cx |-> cache.cx,
                  cy |-> cache.cy, rowh |-> cache.rowh, dirty |-> <<>>]
        empty == [ok |-> TRUE, all_glyphs |-> EmptyMap, cx |-> 0,
                  cy |-> 0, rowh |-> 0, dirty |-> <<>>]
        too_large(sz) == sz.x >= W \/ sz.y >= H
        result(done) ==
            IF ~done.ok
            THEN [ok |-> FALSE, cache |-> cache, dirty |-> <<>>]
            ELSE [ok |-> TRUE,
                  cache |-> [width |-> W, height |-> H,
                             all_glyphs |-> done.all_glyphs, queue |-> <<>>,
                             cx |-> done.cx, cy |-> done.cy, rowh |-> done.rowh],
                  dirty |-> done.dirty]
        retry(adding, queued) ==
            IF adding.ok THEN result(adding)
            ELSE result(place_all(empty, W, H, queued))
        pack(fresh) ==
            IF \E i \in 1..Len(fresh) :
                   too_large(bitmap_size(fresh[i].font, fresh[i].c))
            THEN [ok |-> FALSE, cache |-> cache, dirty |-> <<>>]
            ELSE retry(place_all(start, W, H, fresh), Distinct(cache.queue, {}))
    IN  pack(Distinct(cache.queue, DOMAIN cache.all_glyphs))

\* cache.rect_for(0, g): Ok(None) for a glyph without pixel bounding box,
\* Err(GlyphNotCached) for a glyph that is not in the cache, and otherwise
\* Ok(Some((uv_rect, screen_rect))): the glyph's place in the texture as a
\* fraction of the texture size, and its pixel rectangle on the screen.
rect_for(cache, g) ==
    IF ~has_pixel_bounding_box(g)
    THEN [kind |-> "none", uv_rect |-> ZeroRect, screen_rect |-> ZeroRect]
    ELSE IF g.c \notin DOMAIN cache.all_glyphs
    THEN [kind |-> "err", uv_rect |-> ZeroRect, screen_rect |-> ZeroRect]
    ELSE LET t == cache.all_glyphs[g.c]
         IN  [kind |-> "some",
              uv_rect |-> Rect(FltDiv(FltInt(t.min.x), FltInt(cache.width)),
                               FltDiv(FltInt(t.min.y), FltInt(cache.height)),
                               FltDiv(FltInt(t.max.x), FltInt(cache.width)),
                               FltDiv(FltInt(t.max.y), FltInt(cache.height))),
              screen_rect |-> pixel_bounding_box(g)]

(***************************************************************************)
(* util.rs (and, identically, main.rs): create_text_vb                     *)
(***************************************************************************)

\* (screen_rect.x as f32 / screen_width - 0.5) * 2.0
gl_x(x, screen_width) ==
    FltDouble(FltSub(FltDiv(FltInt(x), FltInt(screen_width)), <<1, -1>>))

\* Mutant of gl_y: the vertical axis is not flipped.
gl_y_unflipped(y, screen_height) ==
    FltDouble(FltSub(FltDiv(FltInt(y), FltInt(screen_height)), <<1, -1>>))

\* (1.0 - screen_rect.y as f32 / screen_height - 0.5) * 2.0
gl_y(y, screen_height) ==
    FltDouble(FltSub(FltSub(<<1, 0>>, FltDiv(FltInt(y), FltInt(screen_height))),
                     <<1, -1>>))

TextVertex(px, py, u, v) ==
    [position |-> <<px, py>>, tex_coords |-> <<u, v>>, colour |-> <<1, 1, 1, 1>>]

\* Mutant of quad: the second triangle runs the other way round.
quad_second_reversed(uv_rect, screen_rect, screen_width, screen_height) ==
    LET vertices(gl_rect) ==
        << TextVertex(gl_rect.min.x, gl_rect.max.y, uv_rect.min.x, uv_rect.max.y),
           TextVertex(gl_rect.min.x, gl_rect.min.y, uv_rect.min.x, uv_rect.min.y),
           TextVertex(gl_rect.max.x, gl_rect.min.y, uv_rect.max.x, uv_rect.min.y),
           TextVertex(gl_rect.min.x, gl_rect.max.y, uv_rect.min.x, uv_rect.max.y),
           TextVertex(gl_rect.max.x, gl_rect.max.y, uv_rect.max.x, uv_rect.max.y),
           TextVertex(gl_rect.max.x, gl_rect.min.y, uv_rect.max.x, uv_rect.min.y) >>
    IN  vertices(Rect(gl_x(screen_rect.min.x, screen_width),
                      gl_y(screen_rect.min.y, screen_height),
                      gl_x(screen_rect.max.x, screen_width),
                      gl_y(screen_rect.max.y, screen_height)))

\* The six vertices of one glyph.
quad(uv_rect, screen_rect, screen_width, screen_height) ==
    LET vertices(gl_rect) ==
        << TextVertex(gl_rect.min.x, gl_rect.max.y, uv_rect.min.x, uv_rect.max.y),
           TextVertex(gl_rect.min.x, gl_rect.min.y, uv_rect.min.x, uv_rect.min.y),
           TextVertex(gl_rect.max.x, gl_rect.min.y, uv_rect.max.x, uv_rect.min.y),
           TextVertex(gl_rect.max.x, gl_rect.min.y, uv_rect.max.x, uv_rect.min.y),
           TextVertex(gl_rect.max.x, gl_rect.max.y, uv_rect.max.x, uv_rect.max.y),
           TextVertex(gl_rect.min.x, gl_rect.max.y, uv_rect.min.x, uv_rect.max.y) >>
    IN  vertices(Rect(gl_x(screen_rect.min.x, screen_width),
                      gl_y(screen_rect.min.y, screen_height),
                      gl_x(screen_rect.max.x, screen_width),
                      gl_y(screen_rect.max.y, screen_height)))

\* Mutant of glyph_vertices: only a glyph without pixel bounding box is
\* left out; a glyph that is not cached gets a quad of the zero rectangle.
glyph_vertices_unless_none(fb, cache, g) ==
    LET emit(r) ==
            IF r.kind # "none"
            THEN quad(r.uv_rect, r.screen_rect, fb.w, fb.h)
            ELSE <<>>
    IN  emit(rect_for(cache, g))

\* The closure of flat_map: six vertices for a resolved glyph, none otherwise.
glyph_vertices(fb, cache, g) ==
    LET emit(r) ==
            IF r.kind = "some"
            THEN quad(r.uv_rect, r.screen_rect, fb.w, fb.h)
            ELSE <<>>
    IN  emit(rect_for(cache, g))

RECURSIVE create_text_vb(_, _, _)
\* fb is display.get_framebuffer_dimensions().
create_text_vb(fb, glyphs, cache) ==
    IF glyphs = <<>> THEN <<>>
    ELSE glyph_vertices(fb, cache, Head(glyphs))
         \o create_text_vb(fb, Tail(glyphs), cache)

(***************************************************************************)
(* util.rs: create_grid                                                    *)
(***************************************************************************)

\* Mutant of rescale: the factor 2 is left out.
rescale_undoubled(f) == FltAdd(<<-1, 0>>, f)

\* Rescale from 0..1 to -1..1:  -1 + (f / 1) * 2
rescale(f) == FltAdd(<<-1, 0>>, FltDouble(f))

Vertex(px, py) == [position |-> <<px, py>>, color |-> <<1, 1, 1>>]

\* The vertex pair of the y-th horizontal line.
horizontal_line(y, grid_size, grid_padding, fb) ==
    LET pair(f) == << Vertex(<<-1, 0>>, FltNeg(f)), Vertex(<<1, 0>>, FltNeg(f)) >>
    IN  pair(rescale(FltDiv(FltPx(F32Add(F32MulInt(y, grid_size.y), grid_padding.y)),
                            FltInt(fb.h))))

\* The vertex pair of the x-th vertical line.
vertical_line(x, grid_size, grid_padding, fb) ==
    LET pair(f) == << Vertex(f, <<-1, 0>>), Vertex(f, <<1, 0>>) >>
    IN  pair(rescale(FltDiv(FltPx(F32Add(F32MulInt(x, grid_size.x), grid_padding.x)),
                            FltInt(fb.w))))

RECURSIVE lines_from(_, _, _, _, _, _)
\* The pairs of lines k, k+1, ..., n-1 (horizontal when horiz, else vertical).
lines_from(k, n, horiz, grid_size, grid_padding, fb) ==
    IF k >= n THEN <<>>
    ELSE (IF horiz THEN horizontal_line(k, grid_size, grid_padding, fb)
                   ELSE vertical_line(k, grid_size, grid_padding, fb))
         \o lines_from(k + 1, n, horiz, grid_size, grid_padding, fb)

\* Mutant of create_grid: the two loops run to each other's bound.
create_grid_bounds_swapped(grid_size, grid_padding, fb) ==
    LET screen == Vec(Px(fb.w), Px(fb.h))
        ny == AsU32(F32TruncDiv(F32Sub(Px(fb.h), grid_padding.y), grid_size.y))
        nx == AsU32(F32TruncDiv(F32Sub(Px(fb.w), grid_padding.x), grid_size.x))
    IN  [grid |-> LineGridNew(screen, grid_size, grid_padding),
         vb |-> lines_from(0, nx, TRUE, grid_size, grid_padding, fb)
                \o lines_from(0, ny, FALSE, grid_size, grid_padding, fb),
         ib |-> [i \in 1..fb.h |-> i - 1]]

\* fb is display.get_framebuffer_dimensions().  The result is the LineGrid,
\* the vertex buffer and the index buffer (0..screen_height as u16).
create_grid(grid_size, grid_padding, fb) ==
    LET screen == Vec(Px(fb.w), Px(fb.h))
        ny == AsU32(F32TruncDiv(F32Sub(Px(fb.h), grid_padding.y), grid_size.y))
        nx == AsU32(F32TruncDiv(F32Sub(Px(fb.w), grid_padding.x), grid_size.x))
    IN  [grid |-> LineGridNew(screen, grid_size, grid_padding),
         vb |-> lines_from(0, ny, TRUE, grid_size, grid_padding, fb)
                \o lines_from(0, nx, FALSE, grid_size, grid_padding, fb),
         ib |-> [i \in 1..fb.h |-> i - 1]]

(***************************************************************************)
(* lib.rs: the font registry                                               *)
(***************************************************************************)

\* The RogueFont that add_font stores: the cell is as high as
\* ascent - descent and as wide as the advance of the full block; cache and
\* texture have the size of the window at registration.
RogueFont(file, dims) ==
    [file |-> file,
     max_font_height |-> F32Sub(v_metrics(file).ascent, v_metrics(file).descent),
     max_font_width |-> advance_width(file, "block"),
     cache |-> CacheNew(dims.w, dims.h),
     texture |-> {}]

Overlap(a, b) ==
    /\ a.min.x < b.max.x /\ b.min.x < a.max.x
    /\ a.min.y < b.max.y /\ b.min.y < a.max.y

\* texture.main_level().write(rect, data): the region now holds the bitmap
\* of code point d.c, whatever it held before.
texture_write(texture, d) ==
    {t \in texture : ~Overlap(t.rect, d.rect)} \cup {d}

RECURSIVE uploaded(_, _)
\* The texture after the uploader closure of draw has been called with each
\* of the regions ds.
uploaded(texture, ds) ==
    IF ds = <<>> THEN texture
    ELSE uploaded(texture_write(texture, Head(ds)), Tail(ds))

(***************************************************************************)
(* State                                                                   *)
(***************************************************************************)

VARIABLES
    prog,       \* the program that runs: "lib" (bin/main.rs over lib.rs),
                \* "legacy" (main.rs) or "unit" (direct calls of functions)
    viewport,   \* the window's framebuffer size in pixels, [w, h]
    fonts,      \* Roguelib.fonts: font name -> RogueFont
    pc,         \* the step of Roguelib::draw to run next, "idle" between
                \* draw calls, "panicked" once the process has panicked
    call,       \* the arguments of the draw call in progress
    fb_grid,    \* the framebuffer size create_grid read in this call
    grid,       \* draw's local `grid`
    vb_grid,    \* draw's local `vb_grid`
    ib_grid,    \* draw's local `ib_grid`
    glyphs,     \* draw's local `glyphs`
    qi,         \* the number of glyphs queued so far in this call
    dirty,      \* the regions cache_queued has uploaded in this call
    fb_text,    \* the framebuffer size create_text_vb read in this call
    text_vb,    \* draw's local `text_vertex_buffer`
    target,     \* the draws submitted to the frame being built
    frame,      \* the number of draw calls started
    presented,  \* the number of frames finished
    log,        \* the steps of this draw call: where each began and ended
    mesh,       \* the grid meshes built so far: their number, and the grid
                \* the last one was built for
    legacy,     \* main.rs: the state of layout_grid's loop
    unit        \* the last direct call of a function and its result

vars == <<prog, viewport, fonts, pc, call, fb_grid, grid, vb_grid, ib_grid,
          glyphs, qi, dirty, fb_text, text_vb, target, frame, presented, log,
          mesh, legacy, unit>>

lib_vars == <<viewport, fonts, pc, call, fb_grid, grid, vb_grid, ib_grid,
              glyphs, qi, dirty, fb_text, text_vb, target, frame, presented,
              log, mesh>>

draw_locals == <<fb_grid, grid, vb_grid, ib_grid, glyphs, qi, dirty, fb_text,
                 text_vb, target>>

(***************************************************************************)
(* Bounds and inputs                                                       *)
(***************************************************************************)

\* The longest text drawn through Roguelib::draw or laid out by a direct
\* call of util.rs layout_grid.
MaxDrawText == 2

\* The longest text laid out by direct calls and by main.rs.
MaxText == 3

\* The number of draw calls in a run.
MaxFrames == 2

\* Direct calls of the coordinate functions use the indices 0..MaxIndex
\* (and the index of the documented example).
MaxIndex == 5

TextsUpTo(n) == UNION {[1..k -> CodePoints] : k \in 0..n}

\* The code points of the texts drawn through Roguelib::draw: a letter, and
\* the space, which has no outline and so no rectangle in the atlas.
DrawCodePoints == {"e", "sp"}

DrawTexts == UNION {[1..k -> DrawCodePoints] : k \in 0..MaxDrawText}

\* The code points of the texts laid out by direct calls of util.rs
\* layout_grid: those of draw and a combining mark, which composes with the
\* letter.
LayoutCodePoints == {"e", "acute", "sp"}

LayoutTexts == UNION {[1..k -> LayoutCodePoints] : k \in 0..MaxDrawText}

\* The names draw is called with, and those add_font is called with.
FontNames == {"default", "alt"}

RegisteredNames == {"default"}

\* Window sizes: two columns of the square font; narrower than one cell;
\* lower than the ascent.
Viewports == {[w |-> 40, h |-> 50], [w |-> 10, h |-> 50], [w |-> 70, h |-> 10]}

NoFb == [w |-> 0, h |-> 0]

NoGrid == LineGridNew(Vec(0, 0), Vec(Unit, Unit), Vec(0, 0))

NoCall == [font |-> "", text |-> <<>>]

NoLegacy == [phase |-> "none", file |-> "", width |-> 0, text |-> <<>>,
             chars |-> <<>>, caret |-> Vec(0, 0), result |-> <<>>,
             before |-> Vec(0, 0), overflowed |-> FALSE]

NoUnit == [op |-> "none", grid |-> NoGrid, cells |-> GridNew(0, 0, Unit, Unit),
           index |-> 0, ok |-> TRUE, out |-> Vec(0, 0), text |-> <<>>,
           fb |-> NoFb, glyphs |-> <<>>, cache |-> CacheNew(0, 0),
           verts |-> <<>>, ib |-> <<>>]

InitLib ==
    /\ viewport \in Viewports
    /\ fonts = EmptyMap
    /\ pc = "idle"
    /\ call = NoCall
    /\ fb_grid = NoFb /\ grid = NoGrid /\ vb_grid = <<>> /\ ib_grid = <<>>
    /\ glyphs = <<>> /\ qi = 0 /\ dirty = <<>>
    /\ fb_text = NoFb /\ text_vb = <<>> /\ target = <<>>
    /\ frame = 0 /\ presented = 0 /\ log = <<>>
    /\ mesh = [builds |-> 0, grid |-> NoGrid]

Init ==
    /\ prog \in {"lib", "legacy", "unit"}
    /\ InitLib
    /\ prog # "lib" => viewport = [w |-> 40, h |-> 50]
    /\ legacy = NoLegacy
    /\ unit = NoUnit

(***************************************************************************)
(* lib.rs: Roguelib                                                        *)
(***************************************************************************)

\* The process panics: nothing runs afterwards.
Panic == pc' = "panicked"

\* The window system resizes the window.  The program does not take part:
\* the size is read from the window whenever get_physical_dimensions or
\* get_framebuffer_dimensions is called, so a resize may fall between two
\* draw calls or between two steps of one.
Resize ==
    /\ prog = "lib" /\ pc # "panicked"
    /\ \E v \in Viewports : v # viewport /\ viewport' = v
    /\ UNCHANGED <<mesh, prog, fonts, pc, call, draw_locals, frame, presented, log,
                   legacy, unit>>

\* Roguelib::add_font(name, font_bytes, scale)
AddFont ==
    /\ prog = "lib" /\ pc = "idle"
    /\ \E name \in RegisteredNames, file \in FontFiles :
          fonts' = MapPut(fonts, name, RogueFont(file, viewport))
    /\ UNCHANGED <<mesh, prog, viewport, pc, call, draw_locals, frame, presented,
                   log, legacy, unit>>

\* The order of the steps of Roguelib::draw (mutant: the text is drawn
\* before the grid lines).
step_after_text_first(step) ==
    CASE step = "Layout" -> "QueueGlyphs"
      [] step = "QueueGlyphs" -> "PackAtlas"
      [] step = "PackAtlas" -> "BuildTextBatch"
      [] step = "BuildTextBatch" -> "DrawTextBatch"
      [] step = "DrawTextBatch" -> "DrawGridMesh"
      [] step = "DrawGridMesh" -> "Present"
      [] step = "Present" -> "idle"

\* The order of the steps of Roguelib::draw.
step_after(step) ==
    CASE step = "Layout" -> "QueueGlyphs"
      [] step = "QueueGlyphs" -> "PackAtlas"
      [] step = "PackAtlas" -> "BuildTextBatch"
      [] step = "BuildTextBatch" -> "DrawGridMesh"
      [] step = "DrawGridMesh" -> "DrawTextBatch"
      [] step = "DrawTextBatch" -> "Present"
      [] step = "Present" -> "idle"

\* The events of the log: a step begins, a step ends.
Begin(step) == [step |-> step, event |-> "begin"]

End(step) == [step |-> step, event |-> "end"]

\* A step that ran from its beginning to its end.
Ran(step) == <<Begin(step), End(step)>>

\* The font of the draw call in progress.
font == fonts[call.font]

\* draw, up to and including create_grid: the window size is read, the
\* font is looked up (a missing font panics: "Font does not exist"), and
\* the grid and its mesh are built for the framebuffer size read now.
DrawBegin ==
    /\ prog = "lib" /\ pc = "idle" /\ frame < MaxFrames
    /\ \E name \in FontNames, text \in DrawTexts :
          /\ call' = [font |-> name, text |-> text]
          /\ frame' = frame + 1
          /\ log' = <<>>
          /\ IF name \notin DOMAIN fonts
             THEN /\ Panic
                  /\ UNCHANGED <<draw_locals, mesh>>
             ELSE LET f == fonts[name]
                      g == create_grid(Vec(f.max_font_width, f.max_font_height),
                                       Vec(0, v_metrics(f.file).ascent),
                                       viewport)
                  IN  /\ pc' = "Layout"
                      /\ fb_grid' = viewport
                      /\ grid' = g.grid
                      /\ vb_grid' = g.vb
                      /\ ib_grid' = g.ib
                      /\ mesh' = [builds |-> mesh.builds + 1, grid |-> g.grid]
                      /\ UNCHANGED <<glyphs, qi, dirty, fb_text, text_vb, target>>
    /\ UNCHANGED <<prog, viewport, fonts, presented, legacy, unit>>

\* let glyphs = layout_grid(&font.font, font.scale, width, &grid, text).
\* With no glyph to queue, the queueing loop that follows is over at once.
Layout ==
    /\ prog = "lib" /\ pc = "Layout"
    /\ IF layout_grid_panics(grid, call.text)
       THEN /\ Panic
            /\ UNCHANGED <<glyphs, qi, log>>
       ELSE /\ glyphs' = layout_grid(font.file, grid, call.text)
            /\ qi' = 0
            /\ log' = IF glyphs' = <<>> THEN Ran("Layout") \o Ran("QueueGlyphs")
                       ELSE Ran("Layout")
            /\ pc' = IF glyphs' = <<>> THEN step_after("QueueGlyphs")
                     ELSE step_after("Layout")
    /\ UNCHANGED <<mesh, prog, viewport, fonts, call, fb_grid, grid, vb_grid, ib_grid,
                   dirty, fb_text, text_vb, target, frame, presented, legacy,
                   unit>>

\* One iteration of: for glyph in &glyphs { font.cache.queue_glyph(0, glyph.clone()) }
QueueGlyphs ==
    /\ prog = "lib" /\ pc = "QueueGlyphs"
    /\ fonts' = [fonts EXCEPT ![call.font].cache = queue_glyph(@, glyphs[qi + 1])]
    /\ qi' = qi + 1
    /\ log' = log \o (IF qi = 0 THEN <<Begin("QueueGlyphs")>> ELSE <<>>)
                   \o (IF qi' = Len(glyphs) THEN <<End("QueueGlyphs")>> ELSE <<>>)
    /\ pc' = IF qi' = Len(glyphs) THEN step_after("QueueGlyphs") ELSE pc
    /\ UNCHANGED <<mesh, prog, viewport, call, fb_grid, grid, vb_grid, ib_grid, glyphs,
                   dirty, fb_text, text_vb, target, frame, presented, legacy,
                   unit>>

\* font.cache.cache_queued(|rect, data| texture.main_level().write(..))
\* .expect("Could not queue texture data"): the queued glyphs are placed in
\* the cache and, inside the same call, the closure writes the region of
\* each glyph placed to the texture; the call has returned when the step is
\* over.  A failure panics; what a failing call has written before is not
\* used again.  With nothing placed the closure is not called.
PackAtlas ==
    /\ prog = "lib" /\ pc = "PackAtlas"
    /\ LET r == cache_queued(font.cache)
       IN  IF ~r.ok
           THEN /\ Panic
                /\ UNCHANGED <<fonts, dirty, log>>
           ELSE /\ fonts' = [fonts EXCEPT
                                ![call.font].cache = r.cache,
                                ![call.font].texture = uploaded(@, r.dirty)]
                /\ dirty' = r.dirty
                /\ log' = log \o <<Begin("PackAtlas")>>
                               \o (IF r.dirty = <<>> THEN <<>>
                                   ELSE Ran("UploadDirtyRegions"))
                               \o <<End("PackAtlas")>>
                /\ pc' = step_after("PackAtlas")
    /\ UNCHANGED <<mesh, prog, viewport, call, fb_grid, grid, vb_grid, ib_grid, glyphs,
                   qi, fb_text, text_vb, target, frame, presented, legacy, unit>>

\* create_text_vb(&self.display, &glyphs, &font.cache), then the frame is
\* opened and cleared.
BuildTextBatch ==
    /\ prog = "lib" /\ pc = "BuildTextBatch"
    /\ fb_text' = viewport
    /\ text_vb' = create_text_vb(viewport, glyphs, font.cache)
    /\ target' = <<>>
    /\ log' = log \o Ran("BuildTextBatch")
    /\ pc' = step_after("BuildTextBatch")
    /\ UNCHANGED <<mesh, prog, viewport, fonts, call, fb_grid, grid, vb_grid, ib_grid,
                   glyphs, qi, dirty, frame, presented, legacy, unit>>

\* target.draw(&vb_grid, &ib_grid, &self.grid_program, ..)
DrawGridMesh ==
    /\ prog = "lib" /\ pc = "DrawGridMesh"
    /\ target' = Append(target, "grid")
    /\ log' = log \o Ran("DrawGridMesh")
    /\ pc' = step_after("DrawGridMesh")
    /\ UNCHANGED <<mesh, prog, viewport, fonts, call, fb_grid, grid, vb_grid, ib_grid,
                   glyphs, qi, dirty, fb_text, text_vb, frame, presented, legacy,
                   unit>>

\* target.draw(&text_vertex_buffer, NoIndices(TrianglesList), ..)
DrawTextBatch ==
    /\ prog = "lib" /\ pc = "DrawTextBatch"
    /\ target' = Append(target, "text")
    /\ log' = log \o Ran("DrawTextBatch")
    /\ pc' = step_after("DrawTextBatch")
    /\ UNCHANGED <<mesh, prog, viewport, fonts, call, fb_grid, grid, vb_grid, ib_grid,
                   glyphs, qi, dirty, fb_text, text_vb, frame, presented, legacy,
                   unit>>

\* target.finish(); draw returns and its locals are dropped.
Present ==
    /\ prog = "lib" /\ pc = "Present"
    /\ presented' = presented + 1
    /\ pc' = step_after("Present")
    /\ call' = NoCall /\ log' = <<>>
    /\ fb_grid' = NoFb /\ grid' = NoGrid /\ vb_grid' = <<>> /\ ib_grid' = <<>>
    /\ glyphs' = <<>> /\ qi' = 0 /\ dirty' = <<>>
    /\ fb_text' = NoFb /\ text_vb' = <<>> /\ target' = <<>>
    /\ UNCHANGED <<mesh, prog, viewport, fonts, frame, legacy, unit>>

(***************************************************************************)
(* main.rs: layout_grid(font, scale, width, text), iteration by iteration  *)
(***************************************************************************)

\* Window widths in pixels: one, two and six glyphs of the square font.
LegacyWidths == {20, 45, 100}

LegacyStart ==
    /\ prog = "legacy" /\ legacy.phase = "none"
    /\ \E file \in FontFiles, width \in LegacyWidths, text \in TextsUpTo(MaxText) :
          legacy' = [phase |-> "loop", file |-> file, width |-> width,
                     text |-> text, chars |-> nfc(text),
                     caret |-> initial_caret(file), result |-> <<>>,
                     before |-> initial_caret(file), overflowed |-> FALSE]
    /\ UNCHANGED <<prog, lib_vars, unit>>

\* One iteration of `for c in text.nfc()`; `before` and `overflowed` record
\* the caret the iteration started with and whether the glyph's box at that
\* caret passed the width.
LegacyStep ==
    /\ prog = "legacy" /\ legacy.phase = "loop" /\ legacy.chars # <<>>
    /\ LET c == Head(legacy.chars)
           st == layout_step(legacy.file, legacy.width, legacy.caret, c)
       IN  legacy' = [legacy EXCEPT
                         !.chars = Tail(@),
                         !.caret = st.caret,
                         !.result = Append(@, st.glyph),
                         !.before = legacy.caret,
                         !.overflowed = overflows(legacy.file, legacy.width,
                                                  legacy.caret, c)]
    /\ UNCHANGED <<prog, lib_vars, unit>>

\* return result
LegacyReturn ==
    /\ prog = "legacy" /\ legacy.phase = "loop" /\ legacy.chars = <<>>
    /\ legacy' = [legacy EXCEPT !.phase = "done"]
    /\ UNCHANGED <<prog, lib_vars, unit>>

(***************************************************************************)
(* Direct calls of the library's functions                                 *)
(***************************************************************************)

UnitScreens == {Vec(Px(1920), Px(1080)), Vec(Px(130), Px(100)), Vec(Px(10), Px(50)),
                Vec(Px(40), Px(50))}

\* Cell sizes: the documented example, the square font, the consola font,
\* a cell 21.33333969116211 pixels wide, and a cell of 124.975830078125 by
\* 27.45540428161621 pixels.
UnitCells == {Vec(Px(24), Px(32)), Vec(Px(16), Px(18)), Vec(15490003, 11972098),
              Vec(11184814, Px(18)), Vec(65523328, 14394539)}

UnitPads == {Vec(0, 0), Vec(0, Px(14)), Vec(2634113, 9245185)}

Indices == 0..MaxIndex \cup {81}

\* LineGrid::new(screen_dimensions, grid_dimensions, grid_padding)
UnitLineGridNew ==
    /\ prog = "unit" /\ unit.op = "none"
    /\ \E screen \in UnitScreens, cell \in UnitCells, pad \in UnitPads :
          unit' = [NoUnit EXCEPT !.op = "LineGrid::new",
                                 !.grid = LineGridNew(screen, cell, pad)]
    /\ UNCHANGED <<prog, lib_vars, legacy>>

\* grid.coordinates_for(index)
UnitCoordinatesFor ==
    /\ prog = "unit" /\ unit.op \in {"LineGrid::new", "coordinates_for"}
    /\ \E index \in Indices :
          unit' = [unit EXCEPT
                      !.op = "coordinates_for",
                      !.index = index,
                      !.ok = ~coordinates_for_panics(unit.grid, index),
                      !.out = IF coordinates_for_panics(unit.grid, index)
                              THEN Vec(0, 0)
                              ELSE coordinates_for(unit.grid, index)]
    /\ UNCHANGED <<prog, lib_vars, legacy>>

\* Grid::new(width, height, grid_x, grid_y) of grid.rs
UnitGridNew ==
    /\ prog = "unit" /\ unit.op = "none"
    /\ \E screen \in UnitScreens, cell \in UnitCells :
          unit' = [NoUnit EXCEPT !.op = "Grid::new",
                                 !.cells = GridNew(screen.x, screen.y, cell.x, cell.y)]
    /\ UNCHANGED <<prog, lib_vars, legacy>>

\* grid.by_index(index) of grid.rs
UnitByIndex ==
    /\ prog = "unit" /\ unit.op \in {"Grid::new", "by_index"}
    /\ \E index \in Indices :
          LET panics == by_index_panics(unit.cells, index)
              cell == by_index(unit.cells, index)
          IN  unit' = [unit EXCEPT
                          !.op = "by_index",
                          !.index = index,
                          !.ok = ~panics,
                          !.out = IF panics THEN Vec(0, 0) ELSE Vec(cell.x, cell.y)]
    /\ UNCHANGED <<prog, lib_vars, legacy>>

\* layout_grid(font, scale, width, &grid, text) of util.rs
UnitLayoutGrid ==
    /\ prog = "unit" /\ unit.op = "LineGrid::new"
    /\ \E file \in FontFiles, text \in LayoutTexts :
          unit' = [unit EXCEPT
                      !.op = "layout_grid",
                      !.text = text,
                      !.ok = ~layout_grid_panics(unit.grid, text),
                      !.glyphs = IF layout_grid_panics(unit.grid, text) THEN <<>>
                                 ELSE layout_grid(file, unit.grid, text)]
    /\ UNCHANGED <<prog, lib_vars, legacy>>

RECURSIVE queue_all(_, _)
queue_all(cache, gs) ==
    IF gs = <<>> THEN cache ELSE queue_all(queue_glyph(cache, Head(gs)), Tail(gs))

\* create_text_vb(display, &glyphs, &cache) on a window as large as the
\* grid's screen, with a cache in which the first n glyphs were cached.
UnitCreateTextVb ==
    /\ prog = "unit" /\ unit.op = "layout_grid" /\ unit.ok
    /\ \E n \in 0..Len(unit.glyphs) :
          LET fb == [w |-> FloorPx(unit.grid.screen_dimensions.x),
                     h |-> FloorPx(unit.grid.screen_dimensions.y)]
              r == cache_queued(queue_all(CacheNew(fb.w, fb.h),
                                          SubSeq(unit.glyphs, 1, n)))
          IN  unit' = [unit EXCEPT
                          !.op = "create_text_vb",
                          !.fb = fb,
                          !.cache = r.cache,
                          !.verts = create_text_vb(fb, unit.glyphs, r.cache)]
    /\ UNCHANGED <<prog, lib_vars, legacy>>

\* Windows, cell sizes and paddings of the direct calls of create_grid:
\* with these every grid line lies on a whole pixel.
MeshScreens == {[w |-> 3, h |-> 3], [w |-> 5, h |-> 4], [w |-> 10, h |-> 10]}

MeshCells == {Vec(Px(1), Px(1)), Vec(Px(2), Px(3))}

MeshPads == {Vec(0, 0), Vec(Px(1), Px(2))}

\* create_grid(grid_size, grid_padding, display) on a window of size fb
UnitCreateGrid ==
    /\ prog = "unit" /\ unit.op = "none"
    /\ \E fb \in MeshScreens, cell \in MeshCells, pad \in MeshPads :
          LET built(g) == [NoUnit EXCEPT !.op = "create_grid", !.fb = fb,
                                         !.grid = g.grid, !.verts = g.vb,
                                         !.ib = g.ib]
          IN  unit' = built(create_grid(cell, pad, fb))
    /\ UNCHANGED <<prog, lib_vars, legacy>>

(***************************************************************************)
(* Specification                                                           *)
(***************************************************************************)

Next ==
    \/ Resize
    \/ AddFont
    \/ DrawBegin
    \/ Layout
    \/ QueueGlyphs
    \/ PackAtlas
    \/ BuildTextBatch
    \/ DrawGridMesh
    \/ DrawTextBatch
    \/ Present
    \/ LegacyStart
    \/ LegacyStep
    \/ LegacyReturn
    \/ UnitLineGridNew
    \/ UnitCoordinatesFor
    \/ UnitGridNew
    \/ UnitByIndex
    \/ UnitLayoutGrid
    \/ UnitCreateTextVb
    \/ UnitCreateGrid

Spec == Init /\ [][Next]_vars

(***************************************************************************)
(* Properties                                                              *)
(***************************************************************************)

\* The steps of a draw call that follow create_grid.
DrawSteps == {"Layout", "QueueGlyphs", "PackAtlas", "BuildTextBatch",
              "DrawGridMesh", "DrawTextBatch", "Present"}

\* The grid of the documented example: screen 1920x1080, cell 24x32, no padding.
ExampleGrid(g) ==
    /\ g.screen_dimensions = Vec(Px(1920), Px(1080))
    /\ g.grid_dimensions = Vec(Px(24), Px(32))
    /\ g.grid_padding = Vec(0, 0)

\* C1: for every grid with at least one column and every index,
\* coordinates_for returns x = (index mod columns) * cell_width + padding.x
\* and y = (index div columns) * cell_height + padding.y, where index =
\* row * columns + col with col < columns (row-major), and Grid::by_index
\* returns the same without padding; for screen 1920x1080, cell 24x32 and
\* padding (0,0) the grid has 80 columns and 33 rows and index 81 maps to
\* (24, 32).
C1_IndexToPosition ==
    /\ (unit.op = "coordinates_for" /\ unit.ok) =>
          \E col \in 0..(unit.grid.totals.x - 1), row \in 0..unit.index :
             /\ unit.index = row * unit.grid.totals.x + col
             /\ unit.out.x = F32Add(F32MulInt(col, unit.grid.grid_dimensions.x),
                                    unit.grid.grid_padding.x)
             /\ unit.out.y = F32Add(F32MulInt(row, unit.grid.grid_dimensions.y),
                                    unit.grid.grid_padding.y)
    /\ (unit.op = "by_index" /\ unit.ok) =>
          \E col \in 0..(unit.cells.cells_x - 1), row \in 0..unit.index :
             /\ unit.index = row * unit.cells.cells_x + col
             /\ unit.out = Vec(F32MulInt(col, unit.cells.grid_x),
                               F32MulInt(row, unit.cells.grid_y))
    /\ (unit.op \in {"LineGrid::new", "coordinates_for"} /\ ExampleGrid(unit.grid)) =>
          /\ unit.grid.totals = Vec(80, 33)
          /\ (unit.op = "coordinates_for" /\ unit.index = 81) =>
                unit.out = Vec(Px(24), Px(32))

\* The documented example has been computed: index 81 on the 80x33 grid.
C1_Witness ==
    /\ unit.op = "coordinates_for" /\ unit.ok /\ ExampleGrid(unit.grid)
    /\ unit.grid.totals = Vec(80, 33)
    /\ unit.index = 81 /\ unit.out = Vec(Px(24), Px(32))

\* floor((screen - padding) / cell) for the framebuffer size fb, per axis.
FloorColumns(g, fb) == (Px(fb.w) - g.grid_padding.x) \div g.grid_dimensions.x

FloorRows(g, fb) == (Px(fb.h) - g.grid_padding.y) \div g.grid_dimensions.y

\* The same floors with the difference and the quotient taken in binary32.
F32Columns(g, fb) ==
    F32FloorDiv(F32Sub(Px(fb.w), g.grid_padding.x), g.grid_dimensions.x)

F32Rows(g, fb) ==
    F32FloorDiv(F32Sub(Px(fb.h), g.grid_padding.y), g.grid_dimensions.y)

\* The grid of the draw call in progress is the grid of this call's font.
GridOfThisCall ==
    /\ grid.screen_dimensions = Vec(Px(fb_grid.w), Px(fb_grid.h))
    /\ grid.grid_dimensions = Vec(font.max_font_width, font.max_font_height)
    /\ grid.grid_padding = Vec(0, v_metrics(font.file).ascent)

\* C2 (amended): in every draw call, also after resizes, the grid used for
\* layout is built from the viewport size read at that call, with
\* columns = max(0, floor((screen_size.x - padding.x) / cell_size.x)) and
\* rows = max(0, floor((screen_size.y - padding.y) / cell_size.y)), the
\* difference and the quotient being binary32 operations; the grid is never
\* carried over from an earlier call.
C2_GridRebuiltPerDraw ==
    [][pc' \in DrawSteps =>
          /\ pc = "idle" => fb_grid' = viewport
          /\ GridOfThisCall'
          /\ grid'.totals.x = Max(0, F32Columns(grid', fb_grid'))
          /\ grid'.totals.y = Max(0, F32Rows(grid', fb_grid'))]_vars

\* The second draw call runs on a window lower than the font's ascent, after
\* a first one on another window size: the grid has 4 columns and no row.
C2_Witness ==
    /\ prog = "lib" /\ pc = "Layout" /\ frame = 2 /\ presented = 1
    /\ fb_grid = [w |-> 70, h |-> 10]
    /\ font.file = "square"
    /\ grid.totals = Vec(4, 0)

\* C2 as stated: columns and rows are the floors themselves.
C2_Original ==
    (prog = "lib" /\ pc \in DrawSteps) =>
       /\ grid.totals.x = FloorColumns(grid, fb_grid)
       /\ grid.totals.y = FloorRows(grid, fb_grid)

\* C3: the layout of draw starts at grid index 0: the i-th character of the
\* normalized string is positioned at coordinates_for(i), counting from 0.
C3_LayoutStartsAtIndexZero ==
    (prog = "lib" /\ pc \in DrawSteps \ {"Layout"}) =>
       \A i \in 1..Len(glyphs) :
          glyphs[i].position = coordinates_for(grid, i - 1)

\* C3 is refuted by any draw of a non-empty text on a grid with a column:
\* the first glyph is at coordinates_for(columns), one row down.
C3_FirstGlyphOnSecondRow ==
    /\ prog = "lib" /\ pc = "QueueGlyphs" /\ glyphs # <<>>
    /\ glyphs[1].position = coordinates_for(grid, grid.totals.x)
    /\ glyphs[1].position # coordinates_for(grid, 0)

\* A fixed-point value that binary32 holds without rounding.
Exact(n) == RoundF32(n) = n

\* The position of index on grid g is computed without rounding.
ExactPosition(g, index) ==
    /\ Exact((index % g.totals.x) * g.grid_dimensions.x)
    /\ Exact((index % g.totals.x) * g.grid_dimensions.x + g.grid_padding.x)
    /\ Exact((index \div g.totals.x) * g.grid_dimensions.y)
    /\ Exact((index \div g.totals.x) * g.grid_dimensions.y + g.grid_padding.y)

\* index < columns * rows on a grid with columns, rows >= 1.
ValidIndex(g, index) ==
    /\ g.totals.x >= 1 /\ g.totals.y >= 1
    /\ index < g.totals.x * g.totals.y

\* row * columns + col for row = floor((y - padding.y) / cell_height) and
\* col = floor((x - padding.x) / cell_width), evaluated in binary32.
InverseIndex(g, pos) ==
    F32FloorDiv(F32Sub(pos.y, g.grid_padding.y), g.grid_dimensions.y) * g.totals.x
    + F32FloorDiv(F32Sub(pos.x, g.grid_padding.x), g.grid_dimensions.x)

\* C4 (amended): for every grid with positive cell size and columns,
\* rows >= 1 and every index < columns * rows whose position is computed
\* without binary32 rounding (as with whole-pixel cell sizes and paddings),
\* the floors of (y - padding.y) / cell_height and (x - padding.x) /
\* cell_width recover index = row * columns + col, and no other such index
\* has the same position.
C4_RoundTripWhenExact ==
    (/\ unit.op = "coordinates_for" /\ unit.ok
     /\ ValidIndex(unit.grid, unit.index)
     /\ ExactPosition(unit.grid, unit.index)) =>
       /\ InverseIndex(unit.grid, unit.out) = unit.index
       /\ \A j \in Indices :
             (/\ j # unit.index
              /\ ValidIndex(unit.grid, j)
              /\ ExactPosition(unit.grid, j)) =>
                coordinates_for(unit.grid, j) # unit.out

\* Index 81 (row 1, column 1) of the 80x33 grid with padding (0, 14) is at
\* (24, 46) and is recovered from there.
C4_Witness ==
    /\ unit.op = "coordinates_for" /\ unit.ok
    /\ ValidIndex(unit.grid, unit.index)
    /\ ExactPosition(unit.grid, unit.index)
    /\ unit.grid.totals = Vec(80, 33) /\ unit.grid.grid_padding = Vec(0, Px(14))
    /\ unit.index = 81 /\ unit.out = Vec(Px(24), Px(46))
    /\ InverseIndex(unit.grid, unit.out) = 81

\* C4 as stated: the round trip and the injectivity for every valid index.
C4_Original ==
    (/\ unit.op = "coordinates_for" /\ unit.ok
     /\ ValidIndex(unit.grid, unit.index)) =>
       /\ InverseIndex(unit.grid, unit.out) = unit.index
       /\ \A j \in Indices :
             (j # unit.index /\ ValidIndex(unit.grid, j)) =>
                coordinates_for(unit.grid, j) # unit.out

\* The code points of a sequence of glyphs.
Chars(gs) == [i \in 1..Len(gs) |-> gs[i].c]

\* Where a layout returns, it has emitted one glyph per character of the
\* normalized input, in input order: the glyphs of draw and of a direct
\* call of util.rs layout_grid, and the result of main.rs layout_grid (at
\* every iteration the glyphs so far followed by the characters to come are
\* the normalized input), whatever wraps or has no pixel bounding box.
LayoutKeepsCharacters ==
    /\ (prog = "lib" /\ pc \in DrawSteps \ {"Layout"}) =>
          Chars(glyphs) = nfc(call.text)
    /\ (unit.op = "layout_grid" /\ unit.ok) =>
          Chars(unit.glyphs) = nfc(unit.text)
    /\ legacy.phase = "loop" =>
          Chars(legacy.result) \o legacy.chars = nfc(legacy.text)
    /\ legacy.phase = "done" =>
          Chars(legacy.result) = nfc(legacy.text)

\* C5: both layouts emit exactly one positioned glyph per character of the
\* NFC-normalized input, in input order, for every input string and every
\* width or grid: once draw has built its grid and gone past the layout, and
\* after every direct call of util.rs layout_grid, the glyphs are those of
\* the normalized text; so is the result of main.rs layout_grid.
C5_OneGlyphPerCharacter ==
    /\ (prog = "lib" /\ fb_grid # NoFb /\ pc # "Layout") =>
          Chars(glyphs) = nfc(call.text)
    /\ unit.op = "layout_grid" =>
          unit.ok /\ Chars(unit.glyphs) = nfc(unit.text)
    /\ legacy.phase = "done" =>
          Chars(legacy.result) = nfc(legacy.text)

\* ascent - descent + line_gap of the font file.
line_advance(file) ==
    F32Add(F32Sub(v_metrics(file).ascent, v_metrics(file).descent),
           v_metrics(file).line_gap)

\* C6: in main.rs layout_grid, when the glyph positioned at the caret has a
\* pixel bounding box whose right edge exceeds the width, the glyph is
\* emitted at (0, caret.y + line_advance), line_advance = ascent - descent +
\* line_gap, never at the caret it overflowed at, and the caret is moved to
\* that position.
C6_WrapToNewLine ==
    (legacy.phase \in {"loop", "done"} /\ legacy.overflowed) =>
       /\ legacy.result # <<>>
       /\ legacy.result[Len(legacy.result)].position =
             Vec(0, F32Add(legacy.before.y, line_advance(legacy.file)))
       /\ legacy.result[Len(legacy.result)].position # legacy.before
       /\ legacy.caret = legacy.result[Len(legacy.result)].position

\* The second glyph of the consola font has wrapped from the first line.
C6_Witness ==
    /\ legacy.phase = "loop" /\ legacy.overflowed /\ legacy.file = "consola"
    /\ Len(legacy.result) = 2
    /\ legacy.before.x > 0 /\ legacy.before.y = v_metrics("consola").ascent
    /\ legacy.caret = Vec(0, F32Add(legacy.before.y, line_advance("consola")))

\* A text batch has been built: create_text_vb has returned in draw, or a
\* direct call of it has.
BatchBuilt ==
    \/ prog = "lib" /\ pc \in {"DrawGridMesh", "DrawTextBatch", "Present"}
    \/ unit.op = "create_text_vb"

\* The framebuffer size, the glyphs, the cache and the vertices of that batch.
BatchFb == IF prog = "lib" THEN fb_text ELSE unit.fb

BatchGlyphs == IF prog = "lib" THEN glyphs ELSE unit.glyphs

BatchCache == IF prog = "lib" THEN font.cache ELSE unit.cache

BatchVerts == IF prog = "lib" THEN text_vb ELSE unit.verts

\* The glyph has an atlas rectangle: it has a pixel bounding box and is cached.
Resolved(cache, g) ==
    has_pixel_bounding_box(g) /\ g.c \in DOMAIN cache.all_glyphs

\* The resolved glyphs of the batch, in glyph order.
ResolvedGlyphs == SelectSeq(BatchGlyphs, LAMBDA g : Resolved(BatchCache, g))

RECURSIVE ResolvedBoxesOf(_, _)
\* The pixel rectangles of the resolved glyphs among gs, in glyph order.
ResolvedBoxesOf(cache, gs) ==
    IF gs = <<>> THEN <<>>
    ELSE (IF Resolved(cache, Head(gs)) THEN <<pixel_bounding_box(Head(gs))>>
                                       ELSE <<>>)
         \o ResolvedBoxesOf(cache, Tail(gs))

ResolvedBoxes == ResolvedBoxesOf(BatchCache, BatchGlyphs)

\* The k-th block of six vertices of the batch.
Block(k) == SubSeq(BatchVerts, 6 * k - 5, 6 * k)

\* 2 * (px / screen_width - 0.5) and 2 * (1 - py / screen_height - 0.5),
\* evaluated in binary32 from left to right.
ClipX(px, screen_width) ==
    FltDouble(FltSub(FltDiv(FltInt(px), FltInt(screen_width)), <<1, -1>>))

ClipY(py, screen_height) ==
    FltDouble(FltSub(FltSub(<<1, 0>>, FltDiv(FltInt(py), FltInt(screen_height))),
                     <<1, -1>>))

\* C7: the text batch has exactly six vertices for each glyph whose atlas
\* rectangle is resolved and none for a glyph without pixel bounding box or
\* not in the cache: its length is 6 * (number of resolved glyphs), and the
\* k-th block of six lies on the pixel rectangle of the k-th resolved glyph
\* (glyph order); the build returns whatever the lookups give.
C7_SixVerticesPerResolvedGlyph ==
    BatchBuilt =>
       LET within(k, xs, ys) ==
              \A i \in 1..6 : /\ Block(k)[i].position[1] \in xs
                              /\ Block(k)[i].position[2] \in ys
           holds(boxes) ==
              /\ Len(BatchVerts) = 6 * Len(boxes)
              /\ \A k \in 1..Len(boxes) :
                    within(k, {ClipX(boxes[k].min.x, BatchFb.w),
                               ClipX(boxes[k].max.x, BatchFb.w)},
                              {ClipY(boxes[k].min.y, BatchFb.h),
                               ClipY(boxes[k].max.y, BatchFb.h)})
       IN  holds(ResolvedBoxes)

\* A direct call with two glyphs: the first is cached and gives six
\* vertices, the second has an outline but is not cached and gives none.
C7_Witness ==
    /\ unit.op = "create_text_vb" /\ Len(unit.glyphs) = 2
    /\ rect_for(unit.cache, unit.glyphs[1]).kind = "some"
    /\ rect_for(unit.cache, unit.glyphs[2]).kind = "err"
    /\ Len(unit.verts) = 6

\* The pixel coordinates of the corners of the glyph rectangles boxes, with
\* the corners of the screen.
BatchXs(boxes) ==
    {0, BatchFb.w} \cup {boxes[k].min.x : k \in 1..Len(boxes)}
                  \cup {boxes[k].max.x : k \in 1..Len(boxes)}

BatchYs(boxes) ==
    {0, BatchFb.h} \cup {boxes[k].min.y : k \in 1..Len(boxes)}
                  \cup {boxes[k].max.y : k \in 1..Len(boxes)}

\* The pairs <<pixel, clip>> of images rise (falling = FALSE) or fall with the
\* pixel: each image compares so with the image of the next pixel of the
\* set, hence with those of all later pixels.
Monotonic(images, falling) ==
    \A p, q \in images :
       (p[1] < q[1] /\ ~\E r \in images : p[1] < r[1] /\ r[1] < q[1])
          => IF falling THEN FltLess(q[2], p[2]) ELSE FltLess(p[2], q[2])

\* C8: every corner of a glyph's pixel rectangle is mapped to clip space by
\* clip.x = 2 * (pixel.x / screen_width - 0.5) and clip.y = 2 * (1 -
\* pixel.y / screen_height - 0.5): the top-left corner of the k-th quad (its
\* second vertex) and the bottom-right one (its fifth) are these images;
\* pixel (0, 0) maps to (-1, 1), pixel (screen_width, screen_height) to
\* (1, -1); x grows with pixel.x and y falls as pixel.y grows.
C8_ScreenToClip ==
    BatchBuilt =>
       LET holds(boxes) ==
              /\ \A k \in 1..Len(boxes) :
                    /\ Block(k)[2].position =
                          << ClipX(boxes[k].min.x, BatchFb.w),
                             ClipY(boxes[k].min.y, BatchFb.h) >>
                    /\ Block(k)[5].position =
                          << ClipX(boxes[k].max.x, BatchFb.w),
                             ClipY(boxes[k].max.y, BatchFb.h) >>
              /\ Monotonic({<<a, gl_x(a, BatchFb.w)>> : a \in BatchXs(boxes)}, FALSE)
              /\ Monotonic({<<a, gl_y(a, BatchFb.h)>> : a \in BatchYs(boxes)}, TRUE)
       IN  /\ holds(ResolvedBoxes)
           /\ gl_x(0, BatchFb.w) = <<-1, 0>> /\ gl_y(0, BatchFb.h) = <<1, 0>>
           /\ gl_x(BatchFb.w, BatchFb.w) = <<1, 0>>
           /\ gl_y(BatchFb.h, BatchFb.h) = <<-1, 0>>

\* draw has built the batch of one glyph on the 40x50 window; the glyph's
\* rectangle lies inside the window, off its centre lines.
C8_Witness ==
    /\ prog = "lib" /\ pc = "DrawGridMesh" /\ fb_text = [w |-> 40, h |-> 50]
    /\ Len(text_vb) = 6
    /\ FltLess(<<-1, 0>>, text_vb[2].position[1])
    /\ FltLess(text_vb[2].position[1], text_vb[5].position[1])
    /\ FltLess(text_vb[5].position[2], text_vb[2].position[2])
    /\ FltLess(text_vb[2].position[2], <<1, 0>>)

\* The vertices of glyph g at the four corners of its rectangle, each with
\* the atlas uv of that corner: on screen "min" is left for x and top for y.
CornerVertices(g) ==
    LET at(gl, uv) ==
            [left_top     |-> TextVertex(gl.min.x, gl.min.y, uv.min.x, uv.min.y),
             right_top    |-> TextVertex(gl.max.x, gl.min.y, uv.max.x, uv.min.y),
             left_bottom  |-> TextVertex(gl.min.x, gl.max.y, uv.min.x, uv.max.y),
             right_bottom |-> TextVertex(gl.max.x, gl.max.y, uv.max.x, uv.max.y)]
        clip(box) == Rect(ClipX(box.min.x, BatchFb.w), ClipY(box.min.y, BatchFb.h),
                          ClipX(box.max.x, BatchFb.w), ClipY(box.max.y, BatchFb.h))
    IN  at(clip(pixel_bounding_box(g)), rect_for(BatchCache, g).uv_rect)

\* The sign of the signed area of the triangle a, b, c (positive:
\* counter-clockwise in clip space), for a triangle one of whose edges at a
\* is parallel to an axis: the cross product of the two edges at a, each
\* coordinate difference replaced by its sign.
Orientation(a, b, c) ==
    LET sign(u, v) == IF FltLess(u, v) THEN 1 ELSE IF FltLess(v, u) THEN -1 ELSE 0
        dx(u, v) == sign(u.position[1], v.position[1])
        dy(u, v) == sign(u.position[2], v.position[2])
    IN  dx(a, b) * dy(a, c) - dy(a, b) * dx(a, c)

\* C9 (amended): the six vertices of every glyph quad form two triangles
\* that share the quad's diagonal from its bottom-left corner to its
\* top-right corner on screen (bottom-left, top-left, top-right and
\* top-right, bottom-right, bottom-left), both triangles have the same
\* winding (clockwise), and each vertex carries the atlas uv of the same
\* corner as its position.
C9_QuadTriangles ==
    BatchBuilt =>
       LET made_of(k, c) ==
              Block(k) = << c.left_bottom, c.left_top, c.right_top,
                            c.right_top, c.right_bottom, c.left_bottom >>
           holds(resolved) ==
              \A k \in 1..Len(resolved) :
                 /\ made_of(k, CornerVertices(resolved[k]))
                 /\ Orientation(Block(k)[1], Block(k)[2], Block(k)[3]) < 0
                 /\ Orientation(Block(k)[4], Block(k)[5], Block(k)[6]) < 0
       IN  holds(ResolvedGlyphs)

\* A direct call has built the quads of two cached glyphs.
C9_Witness ==
    /\ unit.op = "create_text_vb" /\ Len(unit.verts) = 12
    /\ unit.verts[1] = unit.verts[6] /\ unit.verts[3] = unit.verts[4]
    /\ unit.verts[7] = unit.verts[12] /\ unit.verts[9] = unit.verts[10]
    /\ unit.verts[2] # unit.verts[5]

\* C9 as stated: the vertices the two triangles share are the top-left and
\* the bottom-right corner, the windings agree, the uv belongs to the corner.
C9_Original ==
    BatchBuilt =>
       \A k \in 1..Len(ResolvedGlyphs) :
          LET made_of(c) ==
                 /\ {Block(k)[1], Block(k)[2], Block(k)[3]}
                       \cap {Block(k)[4], Block(k)[5], Block(k)[6]}
                    = {c.left_top, c.right_bottom}
                 /\ \A i \in 1..6 :
                       Block(k)[i] \in {c.left_top, c.right_top,
                                        c.left_bottom, c.right_bottom}
          IN  /\ made_of(CornerVertices(ResolvedGlyphs[k]))
              /\ (Orientation(Block(k)[1], Block(k)[2], Block(k)[3]) < 0)
                    <=> (Orientation(Block(k)[4], Block(k)[5], Block(k)[6]) < 0)

\* The steps of a draw call in the order the claim gives them.
StepOrder == <<"Layout", "QueueGlyphs", "PackAtlas", "UploadDirtyRegions",
               "BuildTextBatch", "DrawGridMesh", "DrawTextBatch", "Present">>

\* The steps draw runs one after the other: the uploads are not among them,
\* they are made inside PackAtlas, the call of cache_queued.
CallOrder == <<"Layout", "QueueGlyphs", "PackAtlas", "BuildTextBatch",
               "DrawGridMesh", "DrawTextBatch", "Present">>

RECURSIVE EventsOf(_)
\* The log of steps that ran one after the other, each ended before the
\* next began.
EventsOf(steps) ==
    IF steps = <<>> THEN <<>> ELSE Ran(Head(steps)) \o EventsOf(Tail(steps))

IsPrefix(a, b) == Len(a) <= Len(b) /\ a = SubSeq(b, 1, Len(a))

\* The events of the steps other than the uploads.
CallEvents(events) ==
    LET of_call(e) == e.step # "UploadDirtyRegions"
    IN  SelectSeq(events, of_call)

\* The draw call in progress has uploaded a region.
HasUploaded == \E i \in 1..Len(log) : log[i].step = "UploadDirtyRegions"

\* C10 as stated, its order of steps: Layout, QueueGlyphs, PackAtlas,
\* UploadDirtyRegions, BuildTextBatch, DrawGridMesh, DrawTextBatch, Present
\* run one after the other, each ended before the next begins (a draw call
\* with nothing to upload has no upload step to run).
C10_Original ==
    prog = "lib" =>
       \/ IsPrefix(log, EventsOf(StepOrder))
       \/ ~HasUploaded /\ IsPrefix(log, EventsOf(CallOrder))

\* C10 (amended): every draw call runs Layout, QueueGlyphs, PackAtlas,
\* BuildTextBatch, DrawGridMesh, DrawTextBatch, Present one after the other,
\* each ended before the next begins; UploadDirtyRegions is not a step
\* after PackAtlas: the uploads are made inside it, after it began and
\* before it ended; all glyphs are queued before packing or upload; the
\* uploads are over before the text batch is built; the grid lines are
\* submitted before the text; and a draw call starts only when every
\* earlier one has presented its frame.
C10_StepOrder ==
    prog = "lib" =>
       /\ IsPrefix(CallEvents(log), EventsOf(CallOrder))
       /\ pc \in DrawSteps =>
             IF Len(CallEvents(log)) % 2 = 0
             THEN pc = CallOrder[Len(CallEvents(log)) \div 2 + 1]
             ELSE /\ pc = "QueueGlyphs"
                  /\ log[Len(log)] = Begin("QueueGlyphs")
       /\ \A i \in 1..Len(log) :
             log[i].step = "UploadDirtyRegions" =>
                /\ \E j \in 1..(i - 1) : log[j] = Begin("PackAtlas")
                /\ \E k \in (i + 1)..Len(log) : log[k] = End("PackAtlas")
                /\ \A j \in 1..(i - 1) : log[j] # End("PackAtlas")
       /\ pc \in DrawSteps => (HasUploaded <=> dirty # <<>>)
       /\ pc \in DrawSteps \ {"Layout", "QueueGlyphs"} => qi = Len(glyphs)
       /\ pc \in {"Layout", "QueueGlyphs", "PackAtlas"} => dirty = <<>>
       /\ target \in {<<>>, <<"grid">>, <<"grid", "text">>}
       /\ pc = "DrawTextBatch" => target = <<"grid">>
       /\ pc = "Present" => target = <<"grid", "text">>
       /\ pc \in DrawSteps => frame = presented + 1
       /\ pc = "idle" => frame = presented /\ log = <<>>

\* The second draw call, of two glyphs, is about to present its frame; it
\* has uploaded a region inside PackAtlas.
C10_Witness ==
    /\ prog = "lib" /\ pc = "Present" /\ frame = 2 /\ presented = 1
    /\ Len(glyphs) = 2 /\ qi = 2
    /\ dirty # <<>>
    /\ log = EventsOf(<<"Layout", "QueueGlyphs">>)
             \o <<Begin("PackAtlas")>> \o Ran("UploadDirtyRegions")
             \o <<End("PackAtlas")>>
             \o EventsOf(<<"BuildTextBatch", "DrawGridMesh", "DrawTextBatch">>)
    /\ target = <<"grid", "text">>

\* The clip y of the pixel row k * cell_height + padding.y and the clip x of k * cell_width + padding.x of grid g.
\* the pixel column k * cell_width + padding.x of grid g: 1 - 2 * (y / height)
\* and 2 * (x / width) - 1 in binary32.
LineClipY(g, k) ==
    FltSub(<<1, 0>>,
           FltDouble(FltDiv(FltPx(F32Add(F32MulInt(k, g.grid_dimensions.y),
                                         g.grid_padding.y)),
                            FltPx(g.screen_dimensions.y))))

LineClipX(g, k) ==
    FltSub(FltDouble(FltDiv(FltPx(F32Add(F32MulInt(k, g.grid_dimensions.x),
                                         g.grid_padding.x)),
                            FltPx(g.screen_dimensions.x))),
           <<1, 0>>)

\* C11: the grid mesh built in a draw call has one vertex pair per
\* horizontal and one per vertical grid line: 2 * rows + 2 * columns
\* vertices for the rows and columns of the grid returned with it, also
\* after a resize; the k-th horizontal pair runs from clip x = -1 to 1 at
\* pixel y = k * cell_height + padding.y, and the k-th vertical pair from
\* clip y = -1 to 1 at pixel x = k * cell_width + padding.x.
C11_GridMesh ==
    (prog = "lib" /\ pc \in DrawSteps) =>
       LET horizontal(k, y) ==
              /\ vb_grid[2 * k + 1].position = <<<<-1, 0>>, y>>
              /\ vb_grid[2 * k + 2].position = <<<<1, 0>>, y>>
           vertical(k, x) ==
              /\ vb_grid[2 * grid.totals.y + 2 * k + 1].position = <<x, <<-1, 0>>>>
              /\ vb_grid[2 * grid.totals.y + 2 * k + 2].position = <<x, <<1, 0>>>>
       IN  /\ Len(vb_grid) = 2 * grid.totals.y + 2 * grid.totals.x
           /\ \A k \in 0..(grid.totals.y - 1) : horizontal(k, LineClipY(grid, k))
           /\ \A k \in 0..(grid.totals.x - 1) : vertical(k, LineClipX(grid, k))

\* The second draw call, on the 70x10 window with the square font: four
\* columns and no row, a mesh of eight vertices, all of vertical lines.
C11_Witness ==
    /\ prog = "lib" /\ pc = "Layout" /\ frame = 2
    /\ fb_grid = [w |-> 70, h |-> 10] /\ font.file = "square"
    /\ grid.totals = Vec(4, 0)
    /\ Len(vb_grid) = 8
    /\ vb_grid[1].position = <<<<-1, 0>>, <<-1, 0>>>>
    /\ vb_grid[8].position[2] = <<1, 0>>

\* A queued glyph is as wide or as high as the cache: it cannot be placed.
GlyphTooLarge(cache) ==
    \E i \in 1..Len(cache.queue) :
       \/ bitmap_size(cache.queue[i].font, cache.queue[i].c).x >= cache.width
       \/ bitmap_size(cache.queue[i].font, cache.queue[i].c).y >= cache.height

\* C12: when the packing of the queued glyphs fails because a single glyph
\* cannot fit in the atlas, the draw call does not fail: it goes on to its
\* next steps with the glyphs of the string, which are batched, drawn and
\* presented in that frame.
C12_OversizedGlyphDropped ==
    [][(prog = "lib" /\ pc = "PackAtlas" /\ GlyphTooLarge(font.cache)) =>
          (pc' \in DrawSteps /\ glyphs' = glyphs)]_vars

\* C13: a draw call naming a font that was never registered fails with an
\* error reported to the caller, who goes on, and fails before any effect:
\* no glyph is queued, no cache or texture of a registered font is modified
\* (the registry is unchanged), no draw is submitted, no frame is presented.
C13_UnknownFontReported ==
    [][(/\ prog = "lib" /\ pc = "idle"
        /\ frame' = frame + 1
        /\ call'.font \notin DOMAIN fonts) =>
          /\ pc' = "idle"
          /\ fonts' = fonts
          /\ qi' = qi /\ glyphs' = glyphs
          /\ target' = target
          /\ presented' = presented]_vars

\* The y of the first row below the rows of grid g.
FirstRowBeyond(g) ==
    F32Add(F32MulInt(g.totals.y, g.grid_dimensions.y), g.grid_padding.y)

\* On a grid with a column, an index past the grid still gets a position,
\* in a row beyond the rows of the grid.
SoftOverflowWithColumns ==
    (/\ unit.op = "coordinates_for"
     /\ unit.grid.totals.x >= 1
     /\ unit.index >= unit.grid.totals.x * unit.grid.totals.y) =>
       unit.ok /\ unit.out.y >= FirstRowBeyond(unit.grid)

\* C14: for every grid that can be built from a screen size, a cell size
\* and a padding, and every index >= columns * rows, coordinates_for still
\* returns a position, in a row beyond the rows of the grid, and so does the
\* grid layout of a text: neither fails or aborts.
C14_SoftOverflow ==
    /\ (/\ unit.op = "coordinates_for"
        /\ unit.index >= unit.grid.totals.x * unit.grid.totals.y) =>
          unit.ok /\ unit.out.y >= FirstRowBeyond(unit.grid)
    /\ unit.op = "layout_grid" => unit.ok

\* C15: over a sequence of draw calls the grid mesh is rebuilt only in a
\* draw whose grid differs from the grid of the draw before it: a draw on
\* the same viewport with the same font, whose grid is the one the last
\* mesh was built for, builds no mesh.
C15_MeshRebuiltOnlyOnChange ==
    [][(/\ prog = "lib" /\ pc = "idle" /\ pc' = "Layout"
        /\ mesh.builds >= 1
        /\ grid' = mesh.grid) =>
          mesh'.builds = mesh.builds]_vars

\* C16: in main.rs layout_grid, after every placed glyph the caret's x is
\* the glyph's x plus its horizontal advance width, also for a glyph that
\* was wrapped onto a new line and for one without pixel bounding box; so
\* no two consecutive glyphs with non-zero advance have the same position.
C16_CaretAdvances ==
    (legacy.phase \in {"loop", "done"} /\ legacy.result # <<>>) =>
       /\ legacy.caret =
             Vec(F32Add(legacy.result[Len(legacy.result)].position.x,
                        advance_width(legacy.file,
                                      legacy.result[Len(legacy.result)].c)),
                 legacy.result[Len(legacy.result)].position.y)
       /\ \A i \in 1..(Len(legacy.result) - 1) :
             (/\ advance_width(legacy.file, legacy.result[i].c) # 0
              /\ advance_width(legacy.file, legacy.result[i + 1].c) # 0) =>
                legacy.result[i].position # legacy.result[i + 1].position

\* The pixel column of the k-th vertical line and the pixel row of the k-th
\* horizontal line of the mesh built by the direct call, in fixed point.
LinePixelX(k) ==
    F32Add(F32MulInt(k, unit.grid.grid_dimensions.x), unit.grid.grid_padding.x)

LinePixelY(k) ==
    F32Add(F32MulInt(k, unit.grid.grid_dimensions.y), unit.grid.grid_padding.y)

\* The clip x of the k-th vertical line and the clip y of the k-th
\* horizontal line of that mesh.
MeshLineX(k) == unit.verts[2 * unit.grid.totals.y + 2 * k + 1].position[1]

MeshLineY(k) == unit.verts[2 * k + 1].position[2]

\* The binary32 values a and b differ by less than 2^-23.
Within(a, b) ==
    LET magnitude(d) == <<Abs(d[1]), d[2]>>
    IN  FltLess(magnitude(FltSub(a, b)), <<1, -23>>)

\* C17 as stated: in every grid mesh whose lines lie on whole pixels, the
\* clip x of each vertical line equals the text batch's clip x of its pixel
\* column, and the clip y of each horizontal line equals the text batch's
\* clip y of its pixel row.
C17_Original ==
    unit.op = "create_grid" =>
       /\ \A k \in 0..(unit.grid.totals.x - 1) :
             LinePixelX(k) % Unit = 0
                => MeshLineX(k) = gl_x(FloorPx(LinePixelX(k)), unit.fb.w)
       /\ \A k \in 0..(unit.grid.totals.y - 1) :
             LinePixelY(k) % Unit = 0
                => MeshLineY(k) = gl_y(FloorPx(LinePixelY(k)), unit.fb.h)

\* C17 (amended): in every grid mesh whose lines lie on whole pixels, the
\* clip x of each vertical line equals the text batch's clip x of its pixel
\* column; the clip y of each horizontal line and the text batch's clip y of
\* its pixel row, computed by two different binary32 expressions of
\* 1 - 2 * y / height, differ by less than 2^-23.
C17_SameClipMapping ==
    unit.op = "create_grid" =>
       /\ \A k \in 0..(unit.grid.totals.x - 1) :
             LinePixelX(k) % Unit = 0
                => MeshLineX(k) = gl_x(FloorPx(LinePixelX(k)), unit.fb.w)
       /\ \A k \in 0..(unit.grid.totals.y - 1) :
             LinePixelY(k) % Unit = 0
                => Within(MeshLineY(k), gl_y(FloorPx(LinePixelY(k)), unit.fb.h))

\* The mesh of one-pixel cells on the 3x3 window: the line of pixel row 1
\* has clip y 5592405 * 2^-24, the text batch maps that row to
\* 1398101 * 2^-22; the line of pixel column 1 has the text batch's clip x.
C17_Witness ==
    /\ unit.op = "create_grid" /\ unit.fb = [w |-> 3, h |-> 3]
    /\ unit.grid.totals = Vec(3, 3)
    /\ LinePixelY(1) = Px(1) /\ LinePixelX(1) = Px(1)
    /\ MeshLineY(1) = <<5592405, -24>>
    /\ gl_y(1, 3) = <<1398101, -22>>
    /\ MeshLineX(1) = gl_x(1, 3)
    /\ MeshLineX(1) = <<-5592405, -24>>

\* C18: the index buffer drawn with the grid mesh has an even number of
\* indices, every index is that of a vertex of the grid vertex buffer (below
\* 2 * rows + 2 * columns), and every vertex of the mesh is indexed.
C18_GridIndicesInRange ==
    (prog = "lib" /\ pc \in DrawSteps) =>
       /\ Len(ib_grid) % 2 = 0
       /\ \A i \in 1..Len(ib_grid) :
             ib_grid[i] < 2 * grid.totals.y + 2 * grid.totals.x
       /\ \A v \in 0..(Len(vb_grid) - 1) :
             \E i \in 1..Len(ib_grid) : ib_grid[i] = v

\* The cell of grid g whose top-left corner is p lies inside the screen.
CellOnScreen(g, p) ==
    /\ g.grid_padding.x <= p.x
    /\ p.x + g.grid_dimensions.x <= g.screen_dimensions.x
    /\ g.grid_padding.y <= p.y
    /\ p.y + g.grid_dimensions.y <= g.screen_dimensions.y

\* Every cell of index below columns * rows lies inside the screen.
CellsOnScreen ==
    (unit.op = "coordinates_for"
        /\ unit.index < unit.grid.totals.x * unit.grid.totals.y)
       => unit.ok /\ CellOnScreen(unit.grid, unit.out)

\* The layout of a text of at most columns * rows characters puts every
\* character in a cell inside the screen.
FittingTextOnScreen ==
    (unit.op = "layout_grid"
        /\ Len(nfc(unit.text)) <= unit.grid.totals.x * unit.grid.totals.y)
       => /\ unit.ok
          /\ \A i \in 1..Len(unit.glyphs) :
                CellOnScreen(unit.grid, unit.glyphs[i].position)

\* C19: for every grid built by LineGrid::new (padding not negative, cell
\* size positive) the whole cell of every index below columns * rows lies
\* inside the screen, and the grid layout of a text that fits the grid
\* places no character off-screen.
C19_CellsInsideScreen == CellsOnScreen /\ FittingTextOnScreen

=============================================================================
